---- MODULE Spec2Model ----
(***************************************************************************)
(* A model of sc_tools/methods.py: the four scanners list_cla_ins,         *)
(* list_p1_p2, list_ef, list_do and the classifier attribute_ef, run       *)
(* against a card whose answers are chosen by the environment.             *)
(*                                                                         *)
(* One call is modelled at a time: Call* validates the arguments and       *)
(* enters the loop, a *Step action is one iteration of the loop body (or   *)
(* one probe of attribute_ef), Return is the final return statement.       *)
(***************************************************************************)
EXTENDS Integers, Sequences, FiniteSets, TLC

(***************************************************************************)
(* Bounds of the model.                                                    *)
(***************************************************************************)
\* range arguments of list_cla_ins / list_p1_p2 are drawn from
\* {-1} \cup 0..MaxByteEnd \cup {0x100, 0x101}
MaxByteEnd == 2
\* a call of list_cla_ins / list_p1_p2 is explored when it scans at most
\* MaxScan pairs
MaxScan == 4
\* range arguments of list_ef are drawn from
\* {-1} \cup 0..MaxEfEnd \cup {0xFF, 0x100, 0x101} \cup {0x10000, 0x10001},
\* and a call of list_ef is explored when it scans at most MaxEfEnd identifiers
MaxEfEnd == 2
\* the retry counters of the card are None and 0..MaxRemaining
MaxRemaining == 1

(***************************************************************************)
(* Program constants.                                                      *)
(***************************************************************************)
RangeMin == 0
RangeMax == 256
ByteMax == 255
EfMax == 65536
Tag1Start == 1
Tag1End == 255
Tag2Start == 7967
Tag2End == 65536
\* Python's None (an absent retry counter, an argument that is not passed)
None == -1

(***************************************************************************)
(* CardResponseStatusType: the members methods.py names, and OTHER_TYPE    *)
(* standing for every member it does not name.                             *)
(***************************************************************************)
StatusTypes ==
    { "NORMAL_END", "CLASS_NOT_PROVIDED", "INS_NOT_PROVIDED",
      "ACCESS_FEATURE_WITH_THE_SPECIFIED_LOGICAL_CHANNEL_NUMBER_NOT_PROVIDED",
      "SECURE_MESSAGING_FEATURE_NOT_PROVIDED", "INCORRECT_P1_P2_VALUE",
      "SECURITY_STATUS_NOT_FULFILLED", "VERIFICATION_UNMATCHING",
      "NO_FILE_TO_BE_ACCESSED", "FILE_CONTROL_INFORMATION_FAILURE",
      "INCORRECT_LC_LE_FIELD", "OTHER_TYPE" }

\* A status word as methods.py sees it: its status_type() and its
\* verification_remaining() (None, or the counter of a 63Cx word).
Status(t, r) == [type |-> t, remaining |-> r]

status_type(st) == st.type

verification_remaining(st) == st.remaining

NoStatus == Status("", None)

\* the answers the card may give to a probe of list_cla_ins
ClaInsStatuses == { Status(t, None) : t \in StatusTypes }

(***************************************************************************)
(* Errors.                                                                 *)
(***************************************************************************)
NoError == [kind |-> "none", arg |-> "", status |-> NoStatus]

ValueError(a) == [kind |-> "ValueError", arg |-> a, status |-> NoStatus]

\* a faulty CardResponseError: the status is not kept
CardResponseError_no_status(st) ==
    [kind |-> "CardResponseError", arg |-> "", status |-> NoStatus]

CardResponseError(st) ==
    [kind |-> "CardResponseError", arg |-> "", status |-> st]

\* what an error was constructed with: ValueError(message) at lines 52-62,
\* 125-139, 196-198, 300-308, 351; CardResponseError(status) at line 327
error_carries(e) ==
    IF e.kind = "ValueError" THEN {"message"}
    ELSE IF e.kind = "CardResponseError" THEN {"status"}
    ELSE {}

(***************************************************************************)
(* CardFileAttribute: a Flag; a value is the set of its members, | is      *)
(* union and UNKNOWN (0) is the empty set.                                 *)
(***************************************************************************)
UNKNOWN == {}

Flags ==
    { "WEF_TRANSPARENT", "WEF_RECORD", "IEF_VERIFY_KEY",
      "IEF_INTERNAL_AUTHENTICATE_KEY", "IEF_EXTERNAL_AUTHENTICATE_KEY",
      "LOCKED", "VERIFICATION_REQUIRED", "VERIFICATION_UNLIMITED",
      "JPKI_SIGN_PRIVATE_KEY" }

(***************************************************************************)
(* State.                                                                  *)
(***************************************************************************)
VARIABLES
    device,     \* "any": every answer is possible; "sim": the simulated card
    fn,         \* the function called ("none" before the call)
    args,       \* its arguments
    pc,         \* "idle", "loop", "attr", "return", "done", "raised"
    cur,        \* the loop variables of the iteration about to run
    result,     \* cla_ins_list / p1_p2_list / ef_list / do_list
    probes,     \* the probes the scanner sent, with the answers, in order
    nprobes,    \* the number of probes sent to the connection in this call
    ret,        \* the sequence returned
    err,        \* the error raised
    cb,         \* the calls of found_callback, in order
    last_do,    \* list_do: the last probe it sent
    acalls,     \* the arguments of the calls of attribute_ef, in order
    apc,        \* attribute_ef: the probe about to be sent, "returned", "raised"
    aargs,      \* attribute_ef: its arguments ef_id, cla
    status,     \* attribute_ef: its local variable status
    ef_attribute, \* attribute_ef: its local variable ef_attribute
    aprobes,    \* attribute_ef: the requests it sent, in order
    aret        \* attribute_ef: the attribute set returned

scan == <<device, fn, args, pc, cur, result, probes, nprobes, ret, err, cb,
          last_do, acalls>>

frame == <<apc, aargs, status, ef_attribute, aprobes, aret>>

vars == <<scan, frame>>

NoCur == [none |-> 0]

\* Python's range(a, b) as a set
range(a, b) == a..(b - 1)

\* the answers the card may give to a probe of list_p1_p2
P1P2Statuses ==
    { Status(t, None) : t \in { "NORMAL_END", "INCORRECT_P1_P2_VALUE",
                                "INCORRECT_LC_LE_FIELD", "OTHER_TYPE" } }

\* the retry counters a VERIFICATION_UNMATCHING status may carry
Remainings == {None} \cup (0..MaxRemaining)

\* the answers the card may give to a probe of attribute_ef after the select
AttrStatuses ==
    { Status(t, None) : t \in StatusTypes \ {"VERIFICATION_UNMATCHING"} }
    \cup { Status("VERIFICATION_UNMATCHING", r) : r \in Remainings }

\* the answers the card may give to the select of attribute_ef
AttrSelectStatuses ==
    { Status(t, None) : t \in { "NORMAL_END", "FILE_CONTROL_INFORMATION_FAILURE",
                                "NO_FILE_TO_BE_ACCESSED" } }

\* the answers the card may give to the select of list_ef
EfSelectStatuses ==
    { Status(t, None) : t \in { "NORMAL_END", "FILE_CONTROL_INFORMATION_FAILURE",
                                "NO_FILE_TO_BE_ACCESSED",
                                "SECURITY_STATUS_NOT_FULFILLED", "OTHER_TYPE" } }

\* the data objects the card may hold: (tag bytes, simplified encoding)
DoObjects ==
    { << <<1>>, FALSE >>, << <<254>>, TRUE >>, << <<255, 255>>, FALSE >> }

\* the answers the card may give to get_data on a tag of DoObjects
DoStatuses == { Status(t, None) : t \in StatusTypes }

\* the start and end arguments a call of list_ef may be given
EfArgs == {-1} \cup (0..MaxEfEnd) \cup {255, 256, 257} \cup {EfMax, EfMax + 1}

\* the ef_id arguments a call of attribute_ef may be given
EfIdArgs == { <<>>, <<1>>, <<0, 1>>, <<0, 1, 2>> }

\* the fixed bytes (cla, ins) a call may be given
ByteArgs == {-1, 0, ByteMax, ByteMax + 1}

RangeArgs == {-1} \cup (0..MaxByteEnd) \cup {RangeMax, RangeMax + 1}

\* number of elements of range(a, b)
range_len(a, b) == IF b > a THEN b - a ELSE 0

(***************************************************************************)
(* list_cla_ins                                                            *)
(***************************************************************************)
\* the checks of lines 51-62, in order: the first argument that fails, or ""
list_cla_ins_check(a) ==
    IF a.cla_start < RangeMin \/ RangeMax < a.cla_start THEN "cla_start"
    ELSE IF a.cla_end < RangeMin \/ RangeMax < a.cla_end THEN "cla_end"
    ELSE IF a.ins_start < RangeMin \/ RangeMax < a.ins_start THEN "ins_start"
    ELSE IF a.ins_end < RangeMin \/ RangeMax < a.ins_end THEN "ins_end"
    ELSE ""

\* the first iteration of two nested range() loops, or NoCur when the body
\* never runs
first_pair(o_start, o_end, i_start, i_end, o, i) ==
    IF o_start < o_end /\ i_start < i_end
    THEN (o :> o_start) @@ (i :> i_start)
    ELSE NoCur

\* the iteration after (ov, iv); brk: the inner loop was left by break
next_pair(ov, iv, o_end, i_start, i_end, brk, o, i) ==
    IF ~brk /\ iv + 1 < i_end THEN (o :> ov) @@ (i :> iv + 1)
    ELSE IF ov + 1 < o_end THEN (o :> ov + 1) @@ (i :> i_start)
    ELSE NoCur

\* a faulty cla_ins_skip: SECURE_MESSAGING_FEATURE_NOT_PROVIDED is forgotten
cla_ins_skip_two(t) ==
    \/ t = "INS_NOT_PROVIDED"
    \/ t = "ACCESS_FEATURE_WITH_THE_SPECIFIED_LOGICAL_CHANNEL_NUMBER_NOT_PROVIDED"

\* a faulty cla_ins_skip: INS_NOT_PROVIDED is forgotten
cla_ins_skip_no_ins(t) ==
    \/ t = "ACCESS_FEATURE_WITH_THE_SPECIFIED_LOGICAL_CHANNEL_NUMBER_NOT_PROVIDED"
    \/ t = "SECURE_MESSAGING_FEATURE_NOT_PROVIDED"

\* the categories on which list_cla_ins records nothing and goes on
cla_ins_skip(t) ==
    \/ t = "INS_NOT_PROVIDED"
    \/ t = "ACCESS_FEATURE_WITH_THE_SPECIFIED_LOGICAL_CHANNEL_NUMBER_NOT_PROVIDED"
    \/ t = "SECURE_MESSAGING_FEATURE_NOT_PROVIDED"

\* a faulty cla_ins_break: the inner loop is never left
cla_ins_break_never(t) == FALSE

\* the category on which list_cla_ins leaves the inner loop
cla_ins_break(t) == t = "CLASS_NOT_PROVIDED"

\* CommandApdu(cla, ins, p1, p2) with its le, and the answer it got
Probe(cla, ins, p1, p2, le, st) ==
    [cla |-> cla, ins |-> ins, p1 |-> p1, p2 |-> p2, le |-> le,
     status |-> st]

\* the simulated card: class 0x00 supports only instruction 0xA4, every
\* other class is wholly unsupported
SimStatus(cla, ins) ==
    IF cla = 0
    THEN IF ins = 164 THEN Status("NORMAL_END", None)
         ELSE Status("INS_NOT_PROVIDED", None)
    ELSE Status("CLASS_NOT_PROVIDED", None)

ClaInsAnswers(cla, ins) ==
    IF device = "sim" THEN { SimStatus(cla, ins) } ELSE ClaInsStatuses

StartCall(f, a, bad, first) ==
    /\ fn' = f
    /\ args' = a
    /\ result' = <<>>
    /\ IF bad # ""
       THEN /\ pc' = "raised"
            /\ err' = ValueError(bad)
            /\ cur' = NoCur
       ELSE /\ pc' = IF first = NoCur THEN "return" ELSE "loop"
            /\ err' = NoError
            /\ cur' = first

CallListClaIns ==
    /\ pc = "idle"
    /\ device = "any"
    /\ \E cs \in RangeArgs, ce \in RangeArgs, is \in RangeArgs, ie \in RangeArgs :
         LET a == [cla_start |-> cs, cla_end |-> ce,
                   ins_start |-> is, ins_end |-> ie]
         IN  /\ \/ list_cla_ins_check(a) # ""
                 \/ range_len(cs, ce) * range_len(is, ie) <= MaxScan
             /\ StartCall("list_cla_ins", a, list_cla_ins_check(a),
                          first_pair(cs, ce, is, ie, "cla", "ins"))
    /\ UNCHANGED <<device, probes, nprobes, ret, cb, last_do, acalls, frame>>

\* the calls made on the simulated card: cla in [0, 2), and an instruction
\* range that holds 0xA4 or not
CallListClaInsSim ==
    /\ pc = "idle"
    /\ device = "sim"
    /\ \E is \in {0, 164}, ie \in {2, 165, RangeMax} :
         LET a == [cla_start |-> 0, cla_end |-> 2,
                   ins_start |-> is, ins_end |-> ie]
         IN  StartCall("list_cla_ins", a, list_cla_ins_check(a),
                       first_pair(0, 2, is, ie, "cla", "ins"))
    /\ UNCHANGED <<device, probes, nprobes, ret, cb, last_do, acalls, frame>>

\* one iteration of the inner loop (lines 66-88)
ListClaInsStep ==
    /\ pc = "loop"
    /\ fn = "list_cla_ins"
    /\ \E st \in ClaInsAnswers(cur.cla, cur.ins) :
         LET t == status_type(st)
             nxt == next_pair(cur.cla, cur.ins, args.cla_end, args.ins_start,
                              args.ins_end, cla_ins_break(t), "cla", "ins")
         IN  /\ probes' = Append(probes, Probe(cur.cla, cur.ins, 0, 0, "none", st))
             /\ nprobes' = nprobes + 1
             /\ result' = IF cla_ins_break(t) \/ cla_ins_skip(t)
                          THEN result
                          ELSE Append(result, <<cur.cla, cur.ins, st>>)
             /\ cur' = nxt
             /\ pc' = IF nxt = NoCur THEN "return" ELSE "loop"
    /\ UNCHANGED <<device, fn, args, ret, err, cb, last_do, acalls, frame>>

(***************************************************************************)
(* list_p1_p2                                                              *)
(***************************************************************************)
\* the checks of lines 124-139, in order
list_p1_p2_check(a) ==
    IF a.cla < 0 \/ ByteMax < a.cla THEN "cla"
    ELSE IF a.ins < 0 \/ ByteMax < a.ins THEN "ins"
    ELSE IF a.p1_start < RangeMin \/ RangeMax < a.p1_start THEN "p1_start"
    ELSE IF a.p1_end < RangeMin \/ RangeMax < a.p1_end THEN "p1_end"
    ELSE IF a.p2_start < RangeMin \/ RangeMax < a.p2_start THEN "p2_start"
    ELSE IF a.p2_end < RangeMin \/ RangeMax < a.p2_end THEN "p2_end"
    ELSE ""

\* a faulty p1_p2_invalid: INCORRECT_LC_LE_FIELD is taken for an invalid pair
p1_p2_invalid_wide(t) ==
    t = "INCORRECT_P1_P2_VALUE" \/ t = "INCORRECT_LC_LE_FIELD"

\* the category on which list_p1_p2 does not record the pair (lines 150, 163)
p1_p2_invalid(t) == t = "INCORRECT_P1_P2_VALUE"

\* a faulty p1_p2_pair: the second append records the status of the first
\* probe
p1_p2_pair_first_status(cla, ins, p1, p2, s1, s2) ==
    IF status_type(s1) # "INCORRECT_P1_P2_VALUE"
    THEN [sent |-> << Probe(cla, ins, p1, p2, "none", s1) >>,
          found |-> << <<p1, p2, s1>> >>]
    ELSE [sent |-> << Probe(cla, ins, p1, p2, "none", s1),
                      Probe(cla, ins, p1, p2, "max", s2) >>,
          found |-> IF status_type(s2) # "INCORRECT_P1_P2_VALUE"
                    THEN << <<p1, p2, s1>> >>
                    ELSE <<>>]

\* a faulty p1_p2_pair: the probe with Le = "max" is sent for every pair
p1_p2_pair_always_two(cla, ins, p1, p2, s1, s2) ==
    [sent |-> << Probe(cla, ins, p1, p2, "none", s1),
                 Probe(cla, ins, p1, p2, "max", s2) >>,
     found |-> IF status_type(s1) # "INCORRECT_P1_P2_VALUE"
               THEN << <<p1, p2, s1>> >>
               ELSE IF status_type(s2) # "INCORRECT_P1_P2_VALUE"
               THEN << <<p1, p2, s2>> >>
               ELSE <<>>]

\* the probes of one pair and the entries it appends (lines 144-171):
\* s1 answers the probe without Le, s2 the probe with Le = "max"
p1_p2_pair(cla, ins, p1, p2, s1, s2) ==
    IF ~p1_p2_invalid(status_type(s1))
    THEN [sent |-> << Probe(cla, ins, p1, p2, "none", s1) >>,
          found |-> << <<p1, p2, s1>> >>]
    ELSE [sent |-> << Probe(cla, ins, p1, p2, "none", s1),
                      Probe(cla, ins, p1, p2, "max", s2) >>,
          found |-> IF ~p1_p2_invalid(status_type(s2))
                    THEN << <<p1, p2, s2>> >>
                    ELSE <<>>]

CallListP1P2 ==
    /\ pc = "idle"
    /\ device = "any"
    /\ \E c \in ByteArgs, i \in ByteArgs,
          s1 \in RangeArgs, e1 \in RangeArgs, s2 \in RangeArgs, e2 \in RangeArgs :
         LET a == [cla |-> c, ins |-> i, p1_start |-> s1, p1_end |-> e1,
                   p2_start |-> s2, p2_end |-> e2]
         IN  /\ \/ list_p1_p2_check(a) # ""
                 \/ range_len(s1, e1) * range_len(s2, e2) <= MaxScan
             /\ StartCall("list_p1_p2", a, list_p1_p2_check(a),
                          first_pair(s1, e1, s2, e2, "p1", "p2"))
    /\ UNCHANGED <<device, probes, nprobes, ret, cb, last_do, acalls, frame>>

\* one iteration of the inner loop (lines 143-171)
ListP1P2Step ==
    /\ pc = "loop"
    /\ fn = "list_p1_p2"
    /\ \E s1 \in P1P2Statuses, s2 \in P1P2Statuses :
         LET r == p1_p2_pair(args.cla, args.ins, cur.p1, cur.p2, s1, s2)
             nxt == next_pair(cur.p1, cur.p2, args.p1_end, args.p2_start,
                              args.p2_end, FALSE, "p1", "p2")
         IN  /\ probes' = probes \o r.sent
             /\ nprobes' = nprobes + Len(r.sent)
             /\ result' = result \o r.found
             /\ cur' = nxt
             /\ pc' = IF nxt = NoCur THEN "return" ELSE "loop"
    /\ UNCHANGED <<device, fn, args, ret, err, cb, last_do, acalls, frame>>

(***************************************************************************)
(* attribute_ef                                                            *)
(***************************************************************************)
\* the checks of lines 195-198, in order
attribute_ef_check(a) ==
    IF Len(a.ef_id) # 2 THEN "ef_id"
    ELSE IF a.cla < 0 \/ ByteMax < a.cla THEN "cla"
    ELSE ""

\* a request attribute_ef sends through a method of the connection; cla is
\* the cla argument it passes (None: the method is called without cla)
Request(op, cla, ef_id) == [op |-> op, cla |-> cla, ef_id |-> ef_id]

\* connection.select_ef(ef_id, cla=cla) is called without raise_error=False:
\* the connection raises CardResponseError on a status that is not the
\* normal end
select_ef_raises(st) == status_type(st) # "NORMAL_END"

\* a faulty remaining_flags: `not status.verification_remaining()` where
\* the code has `is None`, so a counter of 0 also counts as unlimited
remaining_flags_falsy(st) ==
    (IF verification_remaining(st) = None \/ verification_remaining(st) = 0
     THEN {"VERIFICATION_UNLIMITED"} ELSE {})
    \cup
    (IF verification_remaining(st) = 0 THEN {"LOCKED"} ELSE {})

\* lines 209-212 and 231-234: the flags read from the retry counter
remaining_flags(st) ==
    (IF verification_remaining(st) = None
     THEN {"VERIFICATION_UNLIMITED"} ELSE {})
    \cup
    (IF verification_remaining(st) = 0 THEN {"LOCKED"} ELSE {})

\* line 207: the verify probe is conclusive
verify_conclusive(st) == status_type(st) = "VERIFICATION_UNMATCHING"

\* a faulty verify_attribute: VERIFICATION_UNLIMITED is forgotten
verify_attribute_no_unlimited(st) ==
    {"IEF_VERIFY_KEY"}
    \cup (IF verification_remaining(st) = 0 THEN {"LOCKED"} ELSE {})

\* lines 208-212: the attribute of a verification key
verify_attribute(st) == {"IEF_VERIFY_KEY"} \cup remaining_flags(st)

\* lines 229-234: ef_attribute after the external authenticate probe
external_authenticate_attribute(attr, st) ==
    IF status_type(st) = "VERIFICATION_UNMATCHING"
    THEN {"IEF_EXTERNAL_AUTHENTICATE_KEY"} \cup remaining_flags(st)
    ELSE attr

\* a faulty jpki_sign_attribute: = where the code has |=
jpki_sign_attribute_assigned(attr, st) ==
    IF status_type(st) = "NORMAL_END" THEN {"JPKI_SIGN_PRIVATE_KEY"}
    ELSE IF status_type(st) = "SECURITY_STATUS_NOT_FULFILLED"
    THEN {"JPKI_SIGN_PRIVATE_KEY", "VERIFICATION_REQUIRED"}
    ELSE attr

\* lines 242-248: ef_attribute after the signature probe
jpki_sign_attribute(attr, st) ==
    (IF status_type(st) = "NORMAL_END"
     THEN attr \cup {"JPKI_SIGN_PRIVATE_KEY"} ELSE attr)
    \cup
    (IF status_type(st) = "SECURITY_STATUS_NOT_FULFILLED"
     THEN {"JPKI_SIGN_PRIVATE_KEY", "VERIFICATION_REQUIRED"} ELSE {})

\* a faulty key_found: the return of line 252 is never taken
key_found_never(attr) == FALSE

\* line 251: a key attribute was found, return it
key_found(attr) == attr # UNKNOWN

\* lines 257-260 and 265-268: the attribute a read probe returns, or
\* NoAttribute when the read decides nothing
NoAttribute == {"(undecided)"}

\* a faulty read_attribute: SECURITY_STATUS_NOT_FULFILLED decides nothing
read_attribute_no_security(st, file_flag) ==
    IF status_type(st) = "NORMAL_END" THEN {file_flag} ELSE NoAttribute

read_attribute(st, file_flag) ==
    IF status_type(st) = "NORMAL_END" THEN {file_flag}
    ELSE IF status_type(st) = "SECURITY_STATUS_NOT_FULFILLED"
    THEN {"VERIFICATION_REQUIRED"}
    ELSE NoAttribute

\* a faulty next_probe: the sign probe is sent before external authenticate
next_probe_sign_first(op) ==
    CASE op = "select_ef" -> "verify"
      [] op = "verify" -> "jpki_sign"
      [] op = "jpki_sign" -> "external_authenticate"
      [] op = "external_authenticate" -> "read_binary"
      [] op = "read_binary" -> "read_record"

\* the probe attribute_ef sends next when the probe op did not end the
\* call: the order of the statements of lines 200, 205, 227, 237, 255, 263
next_probe(op) ==
    CASE op = "select_ef" -> "verify"
      [] op = "verify" -> "external_authenticate"
      [] op = "external_authenticate" -> "jpki_sign"
      [] op = "jpki_sign" -> "read_binary"
      [] op = "read_binary" -> "read_record"

\* the call of attribute_ef(connection, ef_id, cla) up to its first probe
EnterAttributeEf(a) ==
    /\ acalls' = Append(acalls, a)
    /\ aargs' = a
    /\ status' = NoStatus
    /\ ef_attribute' = UNKNOWN
    /\ aprobes' = <<>>
    /\ aret' = UNKNOWN
    /\ IF attribute_ef_check(a) # ""
       THEN /\ apc' = "raised"
            /\ pc' = "raised"
            /\ err' = ValueError(attribute_ef_check(a))
       ELSE /\ apc' = "select_ef"
            /\ pc' = "attr"
            /\ err' = NoError

CallAttributeEf ==
    /\ pc = "idle"
    /\ device = "any"
    /\ \E id \in EfIdArgs, c \in ByteArgs :
         /\ fn' = "attribute_ef"
         /\ args' = [ef_id |-> id, cla |-> c]
         /\ EnterAttributeEf([ef_id |-> id, cla |-> c])
    /\ UNCHANGED <<device, cur, result, probes, nprobes, ret, cb, last_do>>

\* a return statement of attribute_ef: to the caller of the model, or to
\* line 319 of list_ef
AttrReturn(value) ==
    /\ aret' = value
    /\ apc' = "returned"
    /\ pc' = IF fn = "attribute_ef" THEN "done" ELSE "found"

Send(op, cla, ef_id) ==
    /\ aprobes' = Append(aprobes, Request(op, cla, ef_id))
    /\ nprobes' = nprobes + 1

\* line 200 (and line 202 when it does not raise)
AttrSelect ==
    /\ pc = "attr"
    /\ apc = "select_ef"
    /\ \E st \in AttrSelectStatuses :
         /\ Send("select_ef", aargs.cla, aargs.ef_id)
         /\ IF select_ef_raises(st)
            THEN /\ apc' = "raised"
                 /\ pc' = "raised"
                 /\ err' = CardResponseError(st)
                 /\ UNCHANGED <<status, ef_attribute>>
            ELSE /\ apc' = next_probe("select_ef")
                 /\ status' = st
                 /\ ef_attribute' = UNKNOWN
                 /\ UNCHANGED <<pc, err>>
    /\ UNCHANGED <<device, fn, args, cur, result, probes, ret, cb, last_do, acalls,
                   aargs, aret>>

\* lines 205-213
AttrVerify ==
    /\ pc = "attr"
    /\ apc = "verify"
    /\ \E st \in AttrStatuses :
         /\ Send("verify", aargs.cla, <<>>)
         /\ status' = st
         /\ IF verify_conclusive(st)
            THEN /\ ef_attribute' = verify_attribute(st)
                 /\ AttrReturn(verify_attribute(st))
            ELSE /\ apc' = next_probe("verify")
                 /\ UNCHANGED <<ef_attribute, aret, pc>>
    /\ UNCHANGED <<device, fn, args, cur, result, probes, ret, err, cb,
                   last_do, acalls, aargs>>

\* lines 227-234
AttrExternalAuthenticate ==
    /\ pc = "attr"
    /\ apc = "external_authenticate"
    /\ \E st \in AttrStatuses :
         /\ Send("external_authenticate", aargs.cla, <<>>)
         /\ status' = st
         /\ ef_attribute' = external_authenticate_attribute(ef_attribute, st)
         /\ apc' = next_probe("external_authenticate")
    /\ UNCHANGED <<device, fn, args, pc, cur, result, probes, ret, err, cb,
                   last_do, acalls, aargs, aret>>

\* lines 237-252
AttrJpkiSign ==
    /\ pc = "attr"
    /\ apc = "jpki_sign"
    /\ \E st \in AttrStatuses :
         LET attr == jpki_sign_attribute(ef_attribute, st)
         IN  /\ Send("jpki_sign", None, <<>>)
             /\ status' = st
             /\ ef_attribute' = attr
             /\ IF key_found(attr)
                THEN AttrReturn(attr)
                ELSE /\ apc' = next_probe("jpki_sign")
                     /\ UNCHANGED <<aret, pc>>
    /\ UNCHANGED <<device, fn, args, cur, result, probes, ret, err, cb,
                   last_do, acalls, aargs>>

\* lines 255-260
AttrReadBinary ==
    /\ pc = "attr"
    /\ apc = "read_binary"
    /\ \E st \in AttrStatuses :
         LET attr == read_attribute(st, "WEF_TRANSPARENT")
         IN  /\ Send("read_binary", aargs.cla, <<>>)
             /\ status' = st
             /\ IF attr # NoAttribute
                THEN AttrReturn(attr)
                ELSE /\ apc' = next_probe("read_binary")
                     /\ UNCHANGED <<aret, pc>>
    /\ UNCHANGED <<device, fn, args, cur, result, probes, ret, err, cb,
                   last_do, acalls, aargs, ef_attribute>>

\* lines 263-270
AttrReadRecord ==
    /\ pc = "attr"
    /\ apc = "read_record"
    /\ \E st \in AttrStatuses :
         LET attr == read_attribute(st, "WEF_RECORD")
         IN  /\ Send("read_record", aargs.cla, <<>>)
             /\ status' = st
             /\ AttrReturn(IF attr # NoAttribute THEN attr ELSE UNKNOWN)
    /\ UNCHANGED <<device, fn, args, cur, result, probes, ret, err, cb,
                   last_do, acalls, aargs, ef_attribute>>

(***************************************************************************)
(* list_ef                                                                 *)
(***************************************************************************)
\* a faulty list_ef_check: the upper bound of end is not checked
list_ef_check_no_end_max(a) ==
    IF a.cla < 0 \/ ByteMax < a.cla THEN "cla"
    ELSE IF a.start < 0 THEN "start"
    ELSE IF EfMax < a.start THEN "start"
    ELSE IF a.end < 0 THEN "end"
    ELSE ""

\* the checks of lines 299-308, in order
list_ef_check(a) ==
    IF a.cla < 0 \/ ByteMax < a.cla THEN "cla"
    ELSE IF a.start < 0 THEN "start"
    ELSE IF EfMax < a.start THEN "start"
    ELSE IF a.end < 0 THEN "end"
    ELSE IF EfMax < a.end THEN "end"
    ELSE ""

\* ef_id.to_bytes(length=2, byteorder="big")
to_bytes2(n) == << n \div 256, n % 256 >>

\* lines 315-318: the file exists, it is classified
ef_exists(t) ==
    t = "NORMAL_END" \/ t = "FILE_CONTROL_INFORMATION_FAILURE"

\* a faulty ef_absent: NO_FILE_TO_BE_ACCESSED is not told from an error
ef_absent_never(t) == FALSE

\* line 325: there is no such file, the scan goes on
ef_absent(t) == t = "NO_FILE_TO_BE_ACCESSED"

\* a faulty found_callback_calls: the callback is never invoked
found_callback_calls_never(calls, found_callback, entry) == calls

\* lines 322-323, 366-367, 384-385, 398-399: found_callback is invoked with
\* the entry when it is not None
found_callback_calls(calls, found_callback, entry) ==
    IF found_callback THEN Append(calls, entry) ELSE calls

\* a select list_ef sent, and the answer it got
EfProbe(ef_id_bytes, cla, st) ==
    [op |-> "select_ef", ef_id |-> ef_id_bytes, cla |-> cla, status |-> st]

\* the iteration after ef_id of the loop of line 311
next_ef(ef_id, end) ==
    IF ef_id + 1 < end THEN [ef_id |-> ef_id + 1] ELSE NoCur

CallListEf ==
    /\ pc = "idle"
    /\ device = "any"
    /\ \E c \in ByteArgs, s \in EfArgs, e \in EfArgs, f \in BOOLEAN :
         LET a == [cla |-> c, start |-> s, end |-> e, found_callback |-> f]
         IN  /\ \/ list_ef_check(a) # ""
                 \/ range_len(s, e) <= MaxEfEnd
             /\ StartCall("list_ef", a, list_ef_check(a),
                          IF s < e THEN [ef_id |-> s] ELSE NoCur)
    /\ UNCHANGED <<device, probes, nprobes, ret, cb, last_do, acalls, frame>>

\* lines 312-318 and 325-327: the select of one identifier, and what follows
\* when the file is not classified
ListEfStep ==
    /\ pc = "loop"
    /\ fn = "list_ef"
    /\ \E st \in EfSelectStatuses :
         LET ef_id_bytes == to_bytes2(cur.ef_id)
             t == status_type(st)
             nxt == next_ef(cur.ef_id, args.end)
         IN  /\ probes' = Append(probes, EfProbe(ef_id_bytes, args.cla, st))
             /\ nprobes' = nprobes + 1
             /\ IF ef_exists(t)
                THEN /\ EnterAttributeEf([ef_id |-> ef_id_bytes, cla |-> args.cla])
                     /\ UNCHANGED cur
                ELSE /\ IF ef_absent(t)
                        THEN /\ cur' = nxt
                             /\ pc' = IF nxt = NoCur THEN "return" ELSE "loop"
                             /\ err' = NoError
                        ELSE /\ pc' = "raised"
                             /\ err' = CardResponseError(st)
                             /\ UNCHANGED cur
                     /\ UNCHANGED <<acalls, frame>>
    /\ UNCHANGED <<device, fn, args, result, ret, cb, last_do>>

\* lines 319-324: attribute_ef has returned; its frame is dropped
ListEfFound ==
    /\ pc = "found"
    /\ fn = "list_ef"
    /\ LET ef_id_bytes == to_bytes2(cur.ef_id)
           nxt == next_ef(cur.ef_id, args.end)
       IN  /\ result' = Append(result, <<ef_id_bytes, aret>>)
           /\ cb' = found_callback_calls(cb, args.found_callback,
                                         <<ef_id_bytes, aret>>)
           /\ cur' = nxt
           /\ pc' = IF nxt = NoCur THEN "return" ELSE "loop"
    /\ apc' = "none"
    /\ aargs' = NoCur
    /\ status' = NoStatus
    /\ ef_attribute' = UNKNOWN
    /\ aprobes' = <<>>
    /\ aret' = UNKNOWN
    /\ UNCHANGED <<device, fn, args, probes, nprobes, ret, err, last_do, acalls>>

(***************************************************************************)
(* list_do                                                                 *)
(***************************************************************************)
\* line 350-351
list_do_check(a) == IF a.cla < 0 \/ ByteMax < a.cla THEN "cla" ELSE ""

\* tag.to_bytes(length=1)
to_bytes1(n) == << n >>

\* the tag bytes of a tag of pass 1, 2 (lines 357, 371) or 3 (line 389)
do_tag_bytes(pass, tag) == IF pass = 3 THEN to_bytes2(tag) ELSE to_bytes1(tag)

\* the simplified_encoding argument of get_data in each pass (lines 358,
\* 372-374, 390)
do_simplified(pass) == pass = 2

\* the flag of the entry appended in each pass (lines 365, 383, 397)
do_entry_flag(pass) == pass = 2

\* a faulty do_found: INCORRECT_LC_LE_FIELD is not taken as found
do_found_normal_only(t) == t = "NORMAL_END"

\* lines 360-363, 376-379, 392-395: the data object was found
do_found(t) == t = "NORMAL_END" \/ t = "INCORRECT_LC_LE_FIELD"

\* a faulty do_start: the 2-byte pass starts at 0x1F00
do_start_low(pass) == IF pass = 3 THEN 7936 ELSE Tag1Start

\* the first and last+1 tag of each pass (lines 356, 370, 388)
do_start(pass) == IF pass = 3 THEN Tag2Start ELSE Tag1Start

do_end(pass) == IF pass = 3 THEN Tag2End ELSE Tag1End

\* the iteration after (pass, tag) of the three loops
next_do(pass, tag) ==
    IF tag + 1 < do_end(pass) THEN [pass |-> pass, tag |-> tag + 1]
    ELSE IF pass < 3 THEN [pass |-> pass + 1, tag |-> do_start(pass + 1)]
    ELSE NoCur

\* a get_data list_do sent, and the answer it got
DoProbe(tag_bytes, simplified, cla, st) ==
    [op |-> "get_data", tag |-> tag_bytes, simplified_encoding |-> simplified,
     cla |-> cla, status |-> st]

\* the answers of the card to get_data: the data objects it may hold are
\* among DoObjects, every other tag is not found
DoAnswers(tag_bytes, simplified) ==
    IF <<tag_bytes, simplified>> \in DoObjects
    THEN DoStatuses
    ELSE { Status("NO_FILE_TO_BE_ACCESSED", None) }

\* the payload the card sends with a status
DoData(st) == IF status_type(st) = "NORMAL_END" THEN <<1>> ELSE <<>>

CallListDo ==
    /\ pc = "idle"
    /\ device = "any"
    /\ \E c \in ByteArgs, f \in BOOLEAN :
         LET a == [cla |-> c, found_callback |-> f]
         IN  StartCall("list_do", a, list_do_check(a),
                       [pass |-> 1, tag |-> do_start(1)])
    /\ UNCHANGED <<device, probes, nprobes, ret, cb, last_do, acalls, frame>>

\* one iteration of one of the three loops (lines 356-367, 370-385, 388-399)
ListDoStep ==
    /\ pc = "loop"
    /\ fn = "list_do"
    /\ LET tag_bytes == do_tag_bytes(cur.pass, cur.tag)
           nxt == next_do(cur.pass, cur.tag)
       IN  \E st \in DoAnswers(tag_bytes, do_simplified(cur.pass)) :
             /\ last_do' = DoProbe(tag_bytes, do_simplified(cur.pass), args.cla, st)
             /\ nprobes' = nprobes + 1
             /\ IF do_found(status_type(st))
                THEN /\ result' = Append(result, <<tag_bytes, do_entry_flag(cur.pass)>>)
                     /\ cb' = found_callback_calls(cb, args.found_callback,
                              <<tag_bytes, do_entry_flag(cur.pass), DoData(st)>>)
                ELSE UNCHANGED <<result, cb>>
             /\ cur' = nxt
             /\ pc' = IF nxt = NoCur THEN "return" ELSE "loop"
    /\ UNCHANGED <<device, fn, args, probes, ret, err, acalls, frame>>

\* the return statement of a scanner (lines 89, 172, 328, 401)
Return ==
    /\ pc = "return"
    /\ pc' = "done"
    /\ ret' = result
    /\ UNCHANGED <<device, fn, args, cur, result, probes, nprobes, err, cb,
                   last_do, acalls, frame>>

Idle ==
    /\ fn = "none"
    /\ args = NoCur
    /\ pc = "idle"
    /\ cur = NoCur
    /\ result = <<>>
    /\ probes = <<>>
    /\ nprobes = 0
    /\ ret = <<>>
    /\ err = NoError
    /\ cb = <<>>
    /\ last_do = NoCur
    /\ acalls = <<>>
    /\ apc = "none"
    /\ aargs = NoCur
    /\ status = NoStatus
    /\ ef_attribute = UNKNOWN
    /\ aprobes = <<>>
    /\ aret = UNKNOWN

Init == device = "any" /\ Idle

InitSim == device = "sim" /\ Idle

NextClaIns ==
    \/ CallListClaIns
    \/ ListClaInsStep
    \/ Return

NextSim ==
    \/ CallListClaInsSim
    \/ ListClaInsStep
    \/ Return

NextP1P2 ==
    \/ CallListP1P2
    \/ ListP1P2Step
    \/ Return

NextAttr ==
    \/ CallAttributeEf
    \/ AttrSelect
    \/ AttrVerify
    \/ AttrExternalAuthenticate
    \/ AttrJpkiSign
    \/ AttrReadBinary
    \/ AttrReadRecord

NextEf ==
    \/ CallListEf
    \/ ListEfStep
    \/ AttrSelect
    \/ AttrVerify
    \/ AttrExternalAuthenticate
    \/ AttrJpkiSign
    \/ AttrReadBinary
    \/ AttrReadRecord
    \/ ListEfFound
    \/ Return

NextDo ==
    \/ CallListDo
    \/ ListDoStep
    \/ Return

Next ==
    \/ CallListClaIns
    \/ ListClaInsStep
    \/ CallListP1P2
    \/ ListP1P2Step
    \/ CallAttributeEf
    \/ AttrSelect
    \/ AttrVerify
    \/ AttrExternalAuthenticate
    \/ AttrJpkiSign
    \/ AttrReadBinary
    \/ AttrReadRecord
    \/ CallListEf
    \/ ListEfStep
    \/ ListEfFound
    \/ CallListDo
    \/ ListDoStep
    \/ Return

\* every function, called on a card that may answer anything
Spec == Init /\ [][Next]_vars

\* one function at a time
SpecClaIns == Init /\ [][NextClaIns]_vars

SpecP1P2 == Init /\ [][NextP1P2]_vars

SpecAttr == Init /\ [][NextAttr]_vars

SpecEf == Init /\ [][NextEf]_vars

SpecDo == Init /\ [][NextDo]_vars

\* list_cla_ins on the simulated card
SpecSim == InitSim /\ [][NextSim]_vars

(***************************************************************************)
(* Helpers of the properties.                                              *)
(***************************************************************************)
InDomain(x, lo, hi) == lo <= x /\ x <= hi

\* some argument of the call lies outside its documented domain
OutOfDomain ==
    \/ /\ fn = "list_cla_ins"
       /\ \/ ~InDomain(args.cla_start, 0, 256)
          \/ ~InDomain(args.cla_end, 0, 256)
          \/ ~InDomain(args.ins_start, 0, 256)
          \/ ~InDomain(args.ins_end, 0, 256)
    \/ /\ fn = "list_p1_p2"
       /\ \/ ~InDomain(args.cla, 0, 255)
          \/ ~InDomain(args.ins, 0, 255)
          \/ ~InDomain(args.p1_start, 0, 256)
          \/ ~InDomain(args.p1_end, 0, 256)
          \/ ~InDomain(args.p2_start, 0, 256)
          \/ ~InDomain(args.p2_end, 0, 256)
    \/ /\ fn = "list_ef"
       /\ \/ ~InDomain(args.cla, 0, 255)
          \/ ~InDomain(args.start, 0, 65536)
          \/ ~InDomain(args.end, 0, 65536)
    \/ /\ fn = "list_do"
       /\ ~InDomain(args.cla, 0, 255)

NothingSent ==
    /\ nprobes = 0
    /\ probes = <<>>
    /\ aprobes = <<>>
    /\ acalls = <<>>
    /\ last_do = NoCur

\* C1: a call of list_cla_ins, list_p1_p2, list_ef or list_do with an
\* argument outside its documented domain ends with a ValueError and has
\* sent no probe to the connection.
C1_InvalidArgumentNoProbe ==
    OutOfDomain => /\ pc = "raised"
                   /\ err.kind = "ValueError"
                   /\ NothingSent

\* witness of C1: list_ef was called with end = 0x10001 and raised
C1_Witness ==
    /\ fn = "list_ef"
    /\ args.cla = 255 /\ args.start = 0 /\ args.end = 65537
    /\ pc = "raised"
    /\ err = ValueError("end")
    /\ nprobes = 0

(***************************************************************************)
(* list_cla_ins                                                            *)
(***************************************************************************)
Indices(seq) == 1..Len(seq)

\* C2: once a probe (c, i) of list_cla_ins returns CLASS_NOT_PROVIDED, no
\* later probe has class c, nothing is recorded for (c, i), and the next
\* probe (if c + 1 < cla_end) is (c + 1, ins_start); if there is no next
\* class the scan is over.
C2_ClassNotProvidedAbandonsClass ==
    fn = "list_cla_ins" =>
      \A k \in Indices(probes) :
        probes[k].status.type = "CLASS_NOT_PROVIDED" =>
          LET c == probes[k].cla
              i == probes[k].ins
          IN  /\ \A m \in Indices(probes) : m > k => probes[m].cla # c
              /\ \A e \in Indices(result) :
                   ~(result[e][1] = c /\ result[e][2] = i)
              /\ k < Len(probes) =>
                   /\ c + 1 < args.cla_end
                   /\ probes[k + 1].cla = c + 1
                   /\ probes[k + 1].ins = args.ins_start
              /\ (k = Len(probes) /\ c + 1 < args.cla_end) =>
                   /\ pc = "loop"
                   /\ cur.cla = c + 1
                   /\ cur.ins = args.ins_start
              /\ (k = Len(probes) /\ ~(c + 1 < args.cla_end)) =>
                   pc \in {"return", "done"}

\* witness of C2: class 0 was abandoned at its first of two instructions and
\* the scan went on with class 1
C2_Witness ==
    /\ fn = "list_cla_ins"
    /\ args.ins_start = 0 /\ args.ins_end = 2
    /\ Len(probes) >= 2
    /\ probes[1].cla = 0 /\ probes[1].ins = 0
    /\ probes[1].status.type = "CLASS_NOT_PROVIDED"
    /\ probes[2].cla = 1 /\ probes[2].ins = 0
    /\ pc = "done"

\* the discovery (0x00, 0xA4, status) of the simulated card
SimDiscovery == << 0, 164, Status("NORMAL_END", None) >>

SimScanDone ==
    /\ device = "sim"
    /\ fn = "list_cla_ins"
    /\ args.cla_start = 0 /\ args.cla_end = 2
    /\ pc = "done"

\* C3 as stated: on the simulated card, list_cla_ins with cla in [0, 2) and
\* ins in [0, 2) returns exactly the discovery (0x00, 0xA4, status).
C3_Original ==
    (SimScanDone /\ args.ins_start = 0 /\ args.ins_end = 2) =>
        ret = << SimDiscovery >>

\* C3 as amended: on the simulated card, list_cla_ins with cla in [0, 2)
\* returns the empty sequence when ins is in [0, 2) (0xA4 is not scanned),
\* and exactly the one discovery (0x00, 0xA4, status) when the instruction
\* range holds 0xA4; class 0x01 is probed at ins_start only.
C3_SimulatedCard ==
    SimScanDone =>
      /\ (args.ins_start = 0 /\ args.ins_end = 2) => ret = <<>>
      /\ (args.ins_start <= 164 /\ 164 < args.ins_end) => ret = << SimDiscovery >>
      /\ ~(args.ins_start <= 164 /\ 164 < args.ins_end) => ret = <<>>
      /\ \A k \in Indices(probes) :
           probes[k].cla = 1 => probes[k].ins = args.ins_start

\* witness of C3: the scan of cla in [0, 2), ins in [0, 0x100) is done: 256
\* probes of class 0, one of class 1, one discovery
C3_Witness ==
    /\ SimScanDone
    /\ args.ins_start = 0 /\ args.ins_end = 256
    /\ ret = << SimDiscovery >>
    /\ nprobes = 257

\* the categories on which the claim says nothing is recorded
NotRecordedTypes ==
    { "CLASS_NOT_PROVIDED", "INS_NOT_PROVIDED",
      "ACCESS_FEATURE_WITH_THE_SPECIFIED_LOGICAL_CHANNEL_NUMBER_NOT_PROVIDED",
      "SECURE_MESSAGING_FEATURE_NOT_PROVIDED" }

\* the entries (cla, ins, status) of the probes of a log that are recorded
RECURSIVE RecordedOf(_)
RecordedOf(log) ==
    IF log = <<>> THEN <<>>
    ELSE LET p == log[Len(log)]
             rest == RecordedOf(SubSeq(log, 1, Len(log) - 1))
         IN  IF p.status.type \in NotRecordedTypes THEN rest
             ELSE Append(rest, << p.cla, p.ins, p.status >>)

\* (c1, i1) is before (c2, i2) in probe order
PairBefore(c1, i1, c2, i2) == c1 < c2 \/ (c1 = c2 /\ i1 < i2)

IsPrefix(s, t) == Len(s) <= Len(t) /\ s = SubSeq(t, 1, Len(s))

C4_State ==
    fn = "list_cla_ins" =>
      /\ result = RecordedOf(probes)
      /\ \A k \in Indices(probes), m \in Indices(probes) :
           k < m => PairBefore(probes[k].cla, probes[k].ins,
                               probes[m].cla, probes[m].ins)
      /\ \A k \in Indices(result), m \in Indices(result) :
           k < m => PairBefore(result[k][1], result[k][2],
                               result[m][1], result[m][2])
      /\ pc = "done" => ret = result

C4_Step == fn = "list_cla_ins" => IsPrefix(result, result')

\* C4: the sequence of list_cla_ins holds exactly one entry
\* (class, instruction, status) for every probe whose category is not
\* CLASS_NOT_PROVIDED, INS_NOT_PROVIDED, ACCESS_FEATURE_..._NOT_PROVIDED or
\* SECURE_MESSAGING_FEATURE_NOT_PROVIDED, and no other entry, strictly
\* ascending by (class, instruction); a step only appends to it; the
\* sequence returned is that sequence.
C4_ResultIsRecordedProbes == [](C4_State) /\ [][C4_Step]_vars

\* witness of C4: a scan of four pairs returned two entries, the first and
\* the last pair, the two between them being skipped
C4_Witness ==
    /\ fn = "list_cla_ins"
    /\ pc = "done"
    /\ Len(probes) = 4
    /\ Len(ret) = 2
    /\ ret[1][1] = 0 /\ ret[1][2] = 0
    /\ ret[2][1] = 1 /\ ret[2][2] = 1
    /\ probes[2].status.type = "SECURE_MESSAGING_FEATURE_NOT_PROVIDED"
    /\ probes[3].status.type = "INS_NOT_PROVIDED"

(***************************************************************************)
(* list_p1_p2                                                              *)
(***************************************************************************)
\* the entries of a sequence of (p1, p2, status) for the pair (a, b)
EntriesOf(seq, a, b) == { e \in Indices(seq) : seq[e][1] = a /\ seq[e][2] = b }

\* the k-th probe of the log is the no-length probe of a pair
NoLeProbe(k) == probes[k].le = "none"

\* the k-th probe is a no-length probe followed by the maximum-length probe
\* of the same command
HasMaxProbe(k) ==
    /\ NoLeProbe(k)
    /\ k + 1 <= Len(probes)
    /\ probes[k + 1] = [probes[k] EXCEPT !.le = "max",
                                        !.status = probes[k + 1].status]

\* C5: a pair of list_p1_p2 whose no-length probe returns
\* INCORRECT_P1_P2_VALUE and whose maximum-length probe returns NORMAL_END
\* has exactly one entry in the sequence (and in the sequence returned), and
\* that entry carries the status of the maximum-length probe.
C5_MaxLengthStatusRecorded ==
    fn = "list_p1_p2" =>
      /\ \A k \in Indices(probes) :
           ( /\ NoLeProbe(k)
             /\ probes[k].status.type = "INCORRECT_P1_P2_VALUE"
             /\ HasMaxProbe(k)
             /\ probes[k + 1].status.type = "NORMAL_END" ) =>
             /\ Cardinality(EntriesOf(result, probes[k].p1, probes[k].p2)) = 1
             /\ \A e \in EntriesOf(result, probes[k].p1, probes[k].p2) :
                  /\ result[e][3] = probes[k + 1].status
                  /\ result[e][3].type = "NORMAL_END"
      /\ pc = "done" => ret = result

\* witness of C5: a scan of one pair returned it with NORMAL_END after a
\* first probe answered INCORRECT_P1_P2_VALUE
C5_Witness ==
    /\ fn = "list_p1_p2"
    /\ pc = "done"
    /\ Len(probes) = 2
    /\ probes[1].le = "none"
    /\ probes[1].status.type = "INCORRECT_P1_P2_VALUE"
    /\ probes[2].le = "max"
    /\ probes[2].status.type = "NORMAL_END"
    /\ ret = << << probes[1].p1, probes[1].p2, Status("NORMAL_END", None) >> >>

\* both probes of the pair (a, b) were sent and answered
\* INCORRECT_P1_P2_VALUE
BothInvalid(a, b) ==
    \E k \in Indices(probes) :
      /\ probes[k].p1 = a /\ probes[k].p2 = b
      /\ HasMaxProbe(k)
      /\ probes[k].status.type = "INCORRECT_P1_P2_VALUE"
      /\ probes[k + 1].status.type = "INCORRECT_P1_P2_VALUE"

\* C6: when list_p1_p2 returns, a pair of the scanned ranges is absent from
\* the sequence returned iff both its probes returned INCORRECT_P1_P2_VALUE;
\* every other pair of the ranges is there exactly once, and nothing else is.
C6_AbsentIffBothInvalid ==
    (fn = "list_p1_p2" /\ pc = "done") =>
      /\ \A a \in range(args.p1_start, args.p1_end),
            b \in range(args.p2_start, args.p2_end) :
           Cardinality(EntriesOf(ret, a, b)) =
             IF BothInvalid(a, b) THEN 0 ELSE 1
      /\ \A e \in Indices(ret) :
           /\ ret[e][1] \in range(args.p1_start, args.p1_end)
           /\ ret[e][2] \in range(args.p2_start, args.p2_end)

\* witness of C6: of the two pairs scanned, the first failed both probes
\* and is absent, the second is there
C6_Witness ==
    /\ fn = "list_p1_p2"
    /\ pc = "done"
    /\ args.p1_start = 0 /\ args.p1_end = 1
    /\ args.p2_start = 0 /\ args.p2_end = 2
    /\ BothInvalid(0, 0)
    /\ Len(ret) = 1
    /\ ret[1][1] = 0 /\ ret[1][2] = 1
    /\ ret[1][3].type = "INCORRECT_LC_LE_FIELD"

(***************************************************************************)
(* attribute_ef                                                            *)
(***************************************************************************)
Last(seq) == seq[Len(seq)]

\* the operations of the requests attribute_ef sent, in order
Ops(seq) == [k \in Indices(seq) |-> seq[k].op]

\* this step sends one request, of operation op
Sends(op) ==
    /\ Len(aprobes') = Len(aprobes) + 1
    /\ Last(aprobes').op = op

\* the flags the claims derive from a retry counter
CounterFlags(r) ==
    (IF r = None THEN {"VERIFICATION_UNLIMITED"} ELSE {})
    \cup (IF r = 0 THEN {"LOCKED"} ELSE {})

C7_Step ==
    /\ (Sends("verify") /\ status'.type = "VERIFICATION_UNMATCHING") =>
         /\ apc' = "returned"
         /\ aret' = {"IEF_VERIFY_KEY"} \cup CounterFlags(status'.remaining)
         /\ status'.remaining = 0 => aret' = {"IEF_VERIFY_KEY", "LOCKED"}
         /\ Ops(aprobes') = << "select_ef", "verify" >>
    /\ apc = "returned" => aprobes' = aprobes

\* C7: when the verify probe of attribute_ef returns
\* VERIFICATION_UNMATCHING, the call returns at once exactly IEF_VERIFY_KEY,
\* plus VERIFICATION_UNLIMITED iff the counter is None, plus LOCKED iff the
\* counter is 0; the requests of the call are the select and the verify, and
\* none is sent after the return.
C7_VerifyKeyIsTerminal == [][C7_Step]_vars

\* witness of C7: verify answered VERIFICATION_UNMATCHING with counter 0
C7_Witness ==
    /\ fn = "attribute_ef"
    /\ pc = "done"
    /\ status = Status("VERIFICATION_UNMATCHING", 0)
    /\ Ops(aprobes) = << "select_ef", "verify" >>
    /\ aret = {"IEF_VERIFY_KEY", "LOCKED"}

\* the flags the claim derives from the answers of external authenticate
\* and of sign
ExternalFlags(st) ==
    IF st.type = "VERIFICATION_UNMATCHING"
    THEN {"IEF_EXTERNAL_AUTHENTICATE_KEY"} \cup CounterFlags(st.remaining)
    ELSE {}

SignFlags(st) ==
    IF st.type = "NORMAL_END" THEN {"JPKI_SIGN_PRIVATE_KEY"}
    ELSE IF st.type = "SECURITY_STATUS_NOT_FULFILLED"
    THEN {"JPKI_SIGN_PRIVATE_KEY", "VERIFICATION_REQUIRED"}
    ELSE {}

\* in the state before the sign probe, status is the answer of external
\* authenticate
C8_Step ==
    /\ Sends("external_authenticate") => apc' = "jpki_sign"
    /\ Sends("jpki_sign") =>
         /\ Last(aprobes).op = "external_authenticate"
         /\ ef_attribute' = ExternalFlags(status) \cup SignFlags(status')
         /\ (status = Status("VERIFICATION_UNMATCHING", None)
             /\ status'.type = "NORMAL_END") =>
              /\ apc' = "returned"
              /\ aret' = {"IEF_EXTERNAL_AUTHENTICATE_KEY",
                          "VERIFICATION_UNLIMITED", "JPKI_SIGN_PRIVATE_KEY"}

C8_State ==
    \A k \in Indices(aprobes) :
      aprobes[k].op = "external_authenticate" =>
        IF k < Len(aprobes) THEN aprobes[k + 1].op = "jpki_sign"
        ELSE apc = "jpki_sign"

\* C8: in attribute_ef the sign probe follows the external authenticate
\* probe whatever that one returned, and ef_attribute after the sign probe
\* is the union of the flags of the two answers; with external authenticate
\* VERIFICATION_UNMATCHING (counter None) and sign NORMAL_END the call
\* returns exactly IEF_EXTERNAL_AUTHENTICATE_KEY | VERIFICATION_UNLIMITED |
\* JPKI_SIGN_PRIVATE_KEY.
C8_ExternalAndSignCombine == [](C8_State) /\ [][C8_Step]_vars

\* witness of C8: the call returned the three flags after four requests
C8_Witness ==
    /\ fn = "attribute_ef"
    /\ pc = "done"
    /\ Ops(aprobes) = << "select_ef", "verify", "external_authenticate",
                         "jpki_sign" >>
    /\ status.type = "NORMAL_END"
    /\ aret = {"IEF_EXTERNAL_AUTHENTICATE_KEY", "VERIFICATION_UNLIMITED",
               "JPKI_SIGN_PRIVATE_KEY"}

ReadOps == {"read_binary", "read_record"}

FileFlags == {"WEF_TRANSPARENT", "WEF_RECORD"}

KeyFlags ==
    {"IEF_VERIFY_KEY", "IEF_EXTERNAL_AUTHENTICATE_KEY", "JPKI_SIGN_PRIVATE_KEY"}

ReadSent == \E k \in Indices(aprobes) : aprobes[k].op \in ReadOps

\* C9: in attribute_ef, a non-zero ef_attribute after the sign probe is
\* returned as it is, and no read_binary or read_record request is sent or
\* about to be sent; no attribute set returned holds WEF_TRANSPARENT or
\* WEF_RECORD together with IEF_VERIFY_KEY, IEF_EXTERNAL_AUTHENTICATE_KEY or
\* JPKI_SIGN_PRIVATE_KEY.
C9_KeyFileReturnsBeforeReads ==
    /\ (aprobes # <<>> /\ Last(aprobes).op = "jpki_sign"
        /\ ef_attribute # UNKNOWN) =>
         /\ apc = "returned"
         /\ aret = ef_attribute
    /\ ef_attribute # UNKNOWN => (~ReadSent /\ apc \notin ReadOps)
    /\ apc = "returned" =>
         ~(aret \cap FileFlags # {} /\ aret \cap KeyFlags # {})

\* witness of C9: sign answered SECURITY_STATUS_NOT_FULFILLED and the call
\* returned after four requests
C9_Witness ==
    /\ fn = "attribute_ef"
    /\ pc = "done"
    /\ Len(aprobes) = 4
    /\ status.type = "SECURITY_STATUS_NOT_FULFILLED"
    /\ aret = {"JPKI_SIGN_PRIVATE_KEY", "VERIFICATION_REQUIRED"}

(***************************************************************************)
(* list_ef                                                                 *)
(***************************************************************************)
EfExpected ==
    {"NORMAL_END", "FILE_CONTROL_INFORMATION_FAILURE", "NO_FILE_TO_BE_ACCESSED"}

\* C10: in list_ef the k-th select is of identifier start + k - 1, two
\* bytes, most significant first. An identifier whose select returns
\* NO_FILE_TO_BE_ACCESSED is in no entry, attribute_ef is never called on
\* it, and the scan goes on with the next identifier (or returns when there
\* is none). A select status other than NORMAL_END,
\* FILE_CONTROL_INFORMATION_FAILURE and NO_FILE_TO_BE_ACCESSED is the last
\* probe of the scan, which has raised CardResponseError with that status.
C10_AbsentSkippedOthersAbort ==
    fn = "list_ef" =>
      \A k \in Indices(probes) :
        LET id == args.start + k - 1
            bytes == << id \div 256, id % 256 >>
            st == probes[k].status
        IN  /\ probes[k].ef_id = bytes
            /\ st.type = "NO_FILE_TO_BE_ACCESSED" =>
                 /\ \A e \in Indices(result) : result[e][1] # bytes
                 /\ \A e \in Indices(ret) : ret[e][1] # bytes
                 /\ \A c \in Indices(acalls) : acalls[c].ef_id # bytes
                 /\ k < Len(probes) => id + 1 < args.end
                 /\ k = Len(probes) =>
                      /\ err = NoError
                      /\ IF id + 1 < args.end
                         THEN pc = "loop" /\ cur.ef_id = id + 1
                         ELSE pc \in {"return", "done"}
            /\ st.type \notin EfExpected =>
                 /\ k = Len(probes)
                 /\ pc = "raised"
                 /\ err.kind = "CardResponseError"
                 /\ err.status = st

\* witness of C10: identifier 0x00FF was absent, the scan went on and
\* raised on identifier 0x0100
C10_Witness ==
    /\ fn = "list_ef"
    /\ args.start = 255
    /\ Len(probes) = 2
    /\ probes[1].status.type = "NO_FILE_TO_BE_ACCESSED"
    /\ probes[2].ef_id = << 1, 0 >>
    /\ probes[2].status.type = "SECURITY_STATUS_NOT_FULFILLED"
    /\ pc = "raised"
    /\ err = CardResponseError(probes[2].status)
    /\ acalls = <<>>

\* the selects of list_ef that found a file, in order
EfFound == SelectSeq(probes, LAMBDA p : ef_exists(status_type(p.status)))

\* attribute_ef was not stopped by its own select, or that select was
\* answered as the select of list_ef before it
SameSelectAnswer ==
    (apc = "raised" /\ probes # <<>>) => err.status = Last(probes).status

\* C11: in list_ef every identifier whose select returned NORMAL_END or
\* FILE_CONTROL_INFORMATION_FAILURE is passed to attribute_ef, gets exactly
\* one entry, and the scan goes on, also when the select of attribute_ef on
\* the same file is answered FILE_CONTROL_INFORMATION_FAILURE again: between
\* two iterations and at the end of the call there are as many calls of
\* attribute_ef and as many entries as such selects, on the same identifiers
\* in the same order, and the call is not stopped by the classifier.
C11_ExistingFileClassified ==
    (fn = "list_ef" /\ pc \in {"loop", "return", "done", "raised"}
     /\ SameSelectAnswer) =>
      /\ Len(acalls) = Len(EfFound)
      /\ Len(result) = Len(EfFound)
      /\ \A k \in Indices(EfFound) :
           /\ k <= Len(acalls) =>
                acalls[k] = [ef_id |-> EfFound[k].ef_id, cla |-> args.cla]
           /\ k <= Len(result) => result[k][1] = EfFound[k].ef_id
      /\ apc # "raised"

(***************************************************************************)
(* Errors of the scans.                                                    *)
(***************************************************************************)
Scanners == {"list_cla_ins", "list_p1_p2", "list_ef", "list_do"}

\* list_ef was stopped by its own raise (line 327), not by attribute_ef
EfAborted ==
    /\ fn = "list_ef"
    /\ pc = "raised"
    /\ err.kind = "CardResponseError"
    /\ apc # "raised"

\* a scan returned its whole sequence, or raised and returned nothing; the
\* error of list_ef holds the status of the select that stopped it
ScanEnds ==
    /\ (fn \in Scanners /\ pc = "done") =>
         /\ ret = result
         /\ cur = NoCur
         /\ err = NoError
    /\ (fn \in Scanners /\ pc = "raised") =>
         /\ err.kind \in {"ValueError", "CardResponseError"}
         /\ ret = <<>>
    /\ (fn \in Scanners /\ pc \notin {"done", "raised"}) =>
         /\ err = NoError
         /\ ret = <<>>
    /\ EfAborted =>
         /\ probes # <<>>
         /\ err.status = Last(probes).status
         /\ err.status.type \notin EfExpected
         /\ "status" \in error_carries(err)

\* C12 as stated: a scan returns its whole result sequence or raises an
\* error, and the error list_ef raises on an unexpected select status holds
\* that status and the identifier being selected.
C12_Original ==
    /\ ScanEnds
    /\ EfAborted => "ef_id" \in error_carries(err)

\* C12 as amended: a scan returns its whole result sequence or raises an
\* error, and the error list_ef raises on an unexpected select status holds
\* that status and nothing else: the identifier being selected is not in
\* it.
C12_ErrorCarriesStatusOnly ==
    /\ ScanEnds
    /\ EfAborted => error_carries(err) = {"status"}

\* witness of C12: list_ef found a file, then raised on the next select
C12_Witness ==
    /\ EfAborted
    /\ Len(result) = 1
    /\ Len(probes) = 2
    /\ err.status.type = "OTHER_TYPE"
    /\ ret = <<>>

(***************************************************************************)
(* list_do                                                                 *)
(***************************************************************************)
\* the n-th probe of the fixed sequence: 254 native 1-byte tags, 254
\* simplified 1-byte tags, then the 2-byte tags from 0x1F1F
DoNth(n) ==
    IF n <= 254 THEN [tag |-> << n >>, simplified_encoding |-> FALSE]
    ELSE IF n <= 508 THEN [tag |-> << n - 254 >>, simplified_encoding |-> TRUE]
    ELSE [tag |-> << (7967 + n - 509) \div 256, (7967 + n - 509) % 256 >>,
          simplified_encoding |-> FALSE]

\* the number of probes of the whole sequence: 254 + 254 + (0x10000 - 0x1F1F)
DoTotal == 254 + 254 + (65536 - 7967)

C13_State ==
    (fn = "list_do" /\ pc # "raised") =>
      /\ nprobes \in 0..DoTotal
      /\ nprobes >= 1 =>
           /\ last_do.tag = DoNth(nprobes).tag
           /\ last_do.simplified_encoding = DoNth(nprobes).simplified_encoding
           /\ last_do.cla = args.cla
           /\ Len(last_do.tag) = 1 => last_do.tag[1] \in 1..254
           /\ Len(last_do.tag) = 2 =>
                /\ last_do.tag[1] * 256 + last_do.tag[2] \in 7967..65535
                /\ ~last_do.simplified_encoding
      /\ pc = "loop" <=> nprobes < DoTotal

C13_Step ==
    (fn' = "list_do" /\ nprobes' # nprobes) =>
      /\ nprobes' = nprobes + 1
      /\ nprobes' = 509 => last_do'.tag = << 31, 31 >>
      /\ nprobes' = DoTotal => last_do'.tag = << 255, 255 >>

\* C13: the probes of list_do are, whatever the card answers, the 1-byte
\* tags 0x01..0xFE in ascending order with the native encoding, the same
\* tags with the simplified encoding, then the 2-byte tags 0x1F1F..0xFFFF
\* in ascending order; the first 2-byte tag is 0x1F1F, no 2-byte tag below
\* it and no 1-byte tag 0x00 or 0xFF is probed, and the call ends after the
\* probe of 0xFFFF.
C13_FixedProbeSequence == [](C13_State) /\ [][C13_Step]_vars

\* witness of C13: the first 2-byte probe, right after simplified 0xFE, on a
\* card that answered the earlier probes with a found data object
C13_Witness ==
    /\ fn = "list_do"
    /\ nprobes = 509
    /\ last_do.tag = << 31, 31 >>
    /\ Len(result) = 2

DoFoundTypes == {"NORMAL_END", "INCORRECT_LC_LE_FIELD"}

C14_State ==
    fn = "list_do" =>
      /\ pc = "raised" => (err.kind = "ValueError" /\ nprobes = 0)
      /\ pc # "raised" => err = NoError
      /\ pc = "loop" => ENABLED ListDoStep
      /\ pc \in {"return", "done"} =>
           (nprobes = DoTotal /\ last_do.tag = << 255, 255 >>)
      /\ \A e \in Indices(result) :
           result[e][2] => Len(result[e][1]) = 1

C14_Step ==
    (fn' = "list_do" /\ nprobes' = nprobes + 1) =>
      /\ pc' \in {"loop", "return"}
      /\ IF last_do'.status.type \in DoFoundTypes
         THEN result' = Append(result, << last_do'.tag,
                                          last_do'.simplified_encoding >>)
         ELSE result' = result

\* C14: a probe of list_do appends the entry (tag, simplified encoding of
\* the probe) when its answer is NORMAL_END or INCORRECT_LC_LE_FIELD and
\* appends nothing on any other answer; no answer raises an error: after
\* valid arguments the next probe can always be sent until the probe of
\* 0xFFFF, after which the call returns.
C14_FoundIffNormalOrLength == [](C14_State) /\ [][C14_Step]_vars

\* witness of C14: the call returned; native 0x01 was answered with a
\* category that is skipped, simplified 0xFE was found and 0xFFFF answered
\* INCORRECT_LC_LE_FIELD
C14_Witness ==
    /\ fn = "list_do"
    /\ pc = "done"
    /\ last_do.status.type = "INCORRECT_LC_LE_FIELD"
    /\ ret = << << << 254 >>, TRUE >>, << << 255, 255 >>, FALSE >> >>

(***************************************************************************)
(* found_callback                                                          *)
(***************************************************************************)
\* the first two arguments of every call of found_callback, in order
CallbackEntries == [k \in Indices(cb) |-> << cb[k][1], cb[k][2] >>]

WithCallback == fn \in {"list_ef", "list_do"} /\ args.found_callback

Ended == pc \in {"done", "raised"}

C15_State ==
    /\ WithCallback => CallbackEntries = result
    /\ (fn \in {"list_ef", "list_do"} /\ ~args.found_callback) => cb = <<>>

C15_Step ==
    /\ (WithCallback /\ result' # result) =>
         /\ Len(result') = Len(result) + 1
         /\ Len(cb') = Len(cb) + 1
         /\ << Last(cb')[1], Last(cb')[2] >> = Last(result')
    /\ (WithCallback /\ nprobes' = nprobes + 1 /\ fn' = fn) =>
         CallbackEntries = result
    /\ Ended => cb' = cb

\* C15: in list_ef and list_do called with a found_callback, in every state
\* between two probes the calls of found_callback so far carry, in order,
\* the entries of the list built so far: each append comes with one call,
\* made before the next probe is sent; once list_ef has raised, the calls
\* for the entries found before are there and no call is added.
C15_CallbackFollowsResult == [](C15_State) /\ [][C15_Step]_vars

\* witness of C15: list_ef with a callback found a file, delivered it and
\* raised on the second select
C15_Witness ==
    /\ fn = "list_ef"
    /\ args.found_callback
    /\ pc = "raised"
    /\ err.kind = "CardResponseError"
    /\ Len(probes) = 2
    /\ Len(cb) = 1
    /\ cb = result
    /\ cb[1][1] = probes[1].ef_id

(***************************************************************************)
(* list_p1_p2: the probes of a pair                                        *)
(***************************************************************************)
\* the probes sent for the pair (a, b)
ProbesOf(a, b) == { k \in Indices(probes) : probes[k].p1 = a /\ probes[k].p2 = b }

\* C16: in list_p1_p2 the probe with Le = "max" is sent iff the probe
\* without Le of the same pair returned INCORRECT_P1_P2_VALUE, directly
\* after it and with the same cla, ins, p1 and p2; a pair is probed once
\* or twice, first without Le, and a pair whose first probe returned
\* another status is not probed again.
C16_MaxProbeIffFirstInvalid ==
    fn = "list_p1_p2" =>
      \A k \in Indices(probes) :
        /\ probes[k].cla = args.cla
        /\ probes[k].ins = args.ins
        /\ probes[k].le \in {"none", "max"}
        /\ Cardinality(ProbesOf(probes[k].p1, probes[k].p2)) \in {1, 2}
        /\ probes[k].le = "none" =>
             /\ \A j \in ProbesOf(probes[k].p1, probes[k].p2) : j >= k
             /\ IF probes[k].status.type = "INCORRECT_P1_P2_VALUE"
                THEN /\ HasMaxProbe(k)
                     /\ ProbesOf(probes[k].p1, probes[k].p2) = {k, k + 1}
                ELSE /\ ~HasMaxProbe(k)
                     /\ ProbesOf(probes[k].p1, probes[k].p2) = {k}
        /\ probes[k].le = "max" =>
             /\ k > 1
             /\ HasMaxProbe(k - 1)
             /\ probes[k - 1].status.type = "INCORRECT_P1_P2_VALUE"

\* witness of C16: the first pair took two probes, the second pair one
C16_Witness ==
    /\ fn = "list_p1_p2"
    /\ pc = "done"
    /\ Len(probes) = 3
    /\ probes[1].le = "none" /\ probes[2].le = "max" /\ probes[3].le = "none"
    /\ probes[1].status.type = "INCORRECT_P1_P2_VALUE"
    /\ probes[3].status.type = "NORMAL_END"
    /\ << probes[3].p1, probes[3].p2 >> # << probes[1].p1, probes[1].p2 >>

(***************************************************************************)
(* attribute_ef: the read probes                                           *)
(***************************************************************************)
AllOps ==
    << "select_ef", "verify", "external_authenticate", "jpki_sign",
       "read_binary", "read_record" >>

\* the categories on which a read probe decides
ReadDecides == {"NORMAL_END", "SECURITY_STATUS_NOT_FULFILLED"}

C17_Step ==
    /\ Sends("read_binary") =>
         /\ ef_attribute = UNKNOWN
         /\ Ops(aprobes) = SubSeq(AllOps, 1, 4)
         /\ IF status'.type = "NORMAL_END"
            THEN apc' = "returned" /\ aret' = {"WEF_TRANSPARENT"}
            ELSE IF status'.type = "SECURITY_STATUS_NOT_FULFILLED"
            THEN apc' = "returned" /\ aret' = {"VERIFICATION_REQUIRED"}
            ELSE apc' = "read_record"
    /\ Sends("read_record") =>
         /\ Ops(aprobes) = SubSeq(AllOps, 1, 5)
         /\ status.type \notin ReadDecides
         /\ apc' = "returned"
         /\ aret' = IF status'.type = "NORMAL_END" THEN {"WEF_RECORD"}
                    ELSE IF status'.type = "SECURITY_STATUS_NOT_FULFILLED"
                    THEN {"VERIFICATION_REQUIRED"}
                    ELSE UNKNOWN

C17_State ==
    /\ (apc = "returned" /\ aret = UNKNOWN) =>
         /\ Ops(aprobes) = AllOps
         /\ status.type \notin ReadDecides
         /\ ef_attribute = UNKNOWN
    /\ (apc = "returned" /\ aprobes # <<>> /\ Last(aprobes).op = "read_binary") =>
         aret \in { {"WEF_TRANSPARENT"}, {"VERIFICATION_REQUIRED"} }

\* C17: in attribute_ef the read_binary probe is sent only with no flag
\* set; answered NORMAL_END the call returns exactly WEF_TRANSPARENT,
\* answered SECURITY_STATUS_NOT_FULFILLED exactly VERIFICATION_REQUIRED,
\* both without a read_record probe; on any other answer read_record is
\* sent and the call returns exactly WEF_RECORD on NORMAL_END, exactly
\* VERIFICATION_REQUIRED on SECURITY_STATUS_NOT_FULFILLED and UNKNOWN
\* otherwise. UNKNOWN is returned only after verify, external
\* authenticate, sign, read_binary and read_record were all sent and the
\* last decided nothing.
C17_ReadProbesDecideFileType == [](C17_State) /\ [][C17_Step]_vars

\* witness of C17: read_binary decided nothing and read_record returned
\* VERIFICATION_REQUIRED
C17_Witness ==
    /\ fn = "attribute_ef"
    /\ pc = "done"
    /\ Ops(aprobes) = AllOps
    /\ status.type = "SECURITY_STATUS_NOT_FULFILLED"
    /\ aret = {"VERIFICATION_REQUIRED"}

(***************************************************************************)
(* attribute_ef: the order of the probes                                   *)
(***************************************************************************)
AttrStopped == apc \in {"returned", "raised"}

\* the requests sent are the first ones of the fixed order, and a call that
\* goes on is about to send the next one of that order
FixedOrder ==
    /\ Len(aprobes) <= 6
    /\ Ops(aprobes) = SubSeq(AllOps, 1, Len(aprobes))
    /\ (apc \notin {"none", "returned", "raised"}) =>
         /\ Len(aprobes) < 6
         /\ apc = AllOps[Len(aprobes) + 1]
    /\ Len(aprobes) = 3 => (apc = "jpki_sign" /\ ENABLED AttrJpkiSign)
    /\ apc = "returned" => err = NoError

C18_Step == (AttrStopped /\ fn' = fn) => aprobes' = aprobes

\* C18 as stated: the requests of a call of attribute_ef are a prefix of
\* select, verify, external authenticate, sign, read_binary, read_record,
\* each sent at most once, and a call that sent a request ends only after
\* verify, after sign, after read_binary or after read_record.
C18_Original ==
    /\ FixedOrder
    /\ (AttrStopped /\ aprobes # <<>>) => Len(aprobes) \in {2, 4, 5, 6}

C18_State ==
    /\ FixedOrder
    /\ apc = "returned" => Len(aprobes) \in {2, 4, 5, 6}
    /\ (apc = "raised" /\ aprobes # <<>>) =>
         /\ Len(aprobes) = 1
         /\ err.kind = "CardResponseError"
         /\ err.status.type # "NORMAL_END"
    /\ (apc = "raised" /\ aprobes = <<>>) => err.kind = "ValueError"

\* C18 as amended: the requests of a call of attribute_ef are a prefix of
\* select, verify, external authenticate, sign, read_binary, read_record,
\* each sent at most once; the call returns only after verify, after sign,
\* after read_binary or after read_record, never between external
\* authenticate and sign, and it ends after the select alone only by the
\* CardResponseError the select raises on a status that is not NORMAL_END.
C18_FixedOrderOfProbes == [](C18_State) /\ [][C18_Step]_vars

\* witness of C18: a call that sent the six requests and returned
C18_Witness ==
    /\ fn = "attribute_ef"
    /\ apc = "returned"
    /\ Ops(aprobes) = AllOps
    /\ aret = {"WEF_RECORD"}

(***************************************************************************)
(* attribute_ef: the class byte of the probes                              *)
(***************************************************************************)
\* C19: every request of a call of attribute_ef (select, verify, external
\* authenticate, sign, read_binary, read_record) is made with the class
\* byte the call was given.
C19_EveryProbeUsesCallerClass ==
    \A k \in Indices(aprobes) : aprobes[k].cla = aargs.cla

(***************************************************************************)
(* attribute_ef: the attribute sets it returns                             *)
(***************************************************************************)
\* C20: the attribute set attribute_ef returns never holds LOCKED with
\* VERIFICATION_UNLIMITED, never holds IEF_VERIFY_KEY with
\* IEF_EXTERNAL_AUTHENTICATE_KEY or JPKI_SIGN_PRIVATE_KEY, never holds
\* IEF_INTERNAL_AUTHENTICATE_KEY, and holds LOCKED or VERIFICATION_UNLIMITED
\* only with IEF_VERIFY_KEY or IEF_EXTERNAL_AUTHENTICATE_KEY.
C20_ReturnedFlagsConsistent ==
    apc = "returned" =>
      /\ aret \subseteq Flags
      /\ ~({"LOCKED", "VERIFICATION_UNLIMITED"} \subseteq aret)
      /\ "IEF_VERIFY_KEY" \in aret =>
           /\ "IEF_EXTERNAL_AUTHENTICATE_KEY" \notin aret
           /\ "JPKI_SIGN_PRIVATE_KEY" \notin aret
      /\ "IEF_INTERNAL_AUTHENTICATE_KEY" \notin aret
      /\ aret \cap {"LOCKED", "VERIFICATION_UNLIMITED"} # {} =>
           aret \cap {"IEF_VERIFY_KEY", "IEF_EXTERNAL_AUTHENTICATE_KEY"} # {}

\* witness of C20: a locked external authenticate key that also signs
C20_Witness ==
    /\ fn = "attribute_ef"
    /\ apc = "returned"
    /\ aret = {"IEF_EXTERNAL_AUTHENTICATE_KEY", "LOCKED",
               "JPKI_SIGN_PRIVATE_KEY", "VERIFICATION_REQUIRED"}

====
